---- MODULE Spec2Model ----
(***************************************************************************)
(* A model of rotate.py: the cascading orientation resolver (auto_rotate,  *)
(* detect_faces, detect_objects_yolo) and the batch driver                 *)
(* (process_directory over a multiprocessing Pool, and __main__).          *)
(*                                                                         *)
(* Rasters are small pixel matrices, so that rotation and the channel      *)
(* swaps of the codec are computed, not assumed.  The two detectors are    *)
(* black boxes: what they answer for a given raster is an input.           *)
(***************************************************************************)
EXTENDS Integers, Sequences, FiniteSets, TLC

(***************************************************************************)
(* Rasters, rotation and the codec                                         *)
(***************************************************************************)

\* The values of OpenCV's RotateFlags, which rotate.py names at lines 89-91.
ROTATE_90_CLOCKWISE == 0
ROTATE_180 == 1
ROTATE_90_COUNTERCLOCKWISE == 2
\* Python's None, the rotate_code of the 0 degree candidate (line 88).
NoneCode == -1

\* The candidate list that both loops of auto_rotate iterate over.
Candidates ==
  << [angle |-> 0,   rotate_code |-> NoneCode],
     [angle |-> 90,  rotate_code |-> ROTATE_90_CLOCKWISE],
     [angle |-> 180, rotate_code |-> ROTATE_180],
     [angle |-> 270, rotate_code |-> ROTATE_90_COUNTERCLOCKWISE] >>

Angles == {0, 90, 180, 270}

\* Python truthiness of a rotate_code: None and the integer 0 are falsy.
Truthy(rotate_code) == rotate_code # NoneCode /\ rotate_code # 0

Height(image) == Len(image)
Width(image) == Len(image[1])

\* cv2.rotate on a raster given as a sequence of rows.
cv2_rotate(image, rotate_code) ==
  LET H == Height(image)
      W == Width(image)
  IN  CASE rotate_code = ROTATE_90_CLOCKWISE ->
             [i \in 1..W |-> [j \in 1..H |-> image[H - j + 1][i]]]
        [] rotate_code = ROTATE_180 ->
             [i \in 1..H |-> [j \in 1..W |-> image[H - i + 1][W - j + 1]]]
        [] rotate_code = ROTATE_90_COUNTERCLOCKWISE ->
             [i \in 1..W |-> [j \in 1..H |-> image[j][W - i + 1]]]

\* `cv2.rotate(img, rotate_code) if rotate_code else img`
Rotated(image, rotate_code) ==
  IF Truthy(rotate_code) THEN cv2_rotate(image, rotate_code) ELSE image

\* cv2.cvtColor with COLOR_BGR2RGB (and its inverse): the channels reversed.
cvtColor(image) ==
  [i \in 1..Height(image) |->
     [j \in 1..Width(image) |->
        << image[i][j][3], image[i][j][2], image[i][j][1] >>]]

\* What an image file holds, as RGB; one row of two pixels, all channels
\* distinct, so that its four rotations and its channel orders all differ.
OrigRGB == << << <<1, 2, 3>>, <<4, 5, 6>> >> >>

ImageFile(rgb) == [kind |-> "image", rgb |-> rgb]
GarbageFile == [kind |-> "garbage", rgb |-> << >>]
TruncatedFile == [kind |-> "truncated", rgb |-> << >>]

\* The value cv2.imread returns for a file it cannot decode.
NoImage == << >>

\* cv2.imread: the raster in BGR order, or None.
imread(content) ==
  IF content.kind = "image" THEN cvtColor(content.rgb) ELSE NoImage

\* Image.fromarray(cv2.cvtColor(rotated, cv2.COLOR_BGR2RGB)).save(path)
Encoded(rotated) == ImageFile(cvtColor(rotated))

(***************************************************************************)
(* The detectors                                                           *)
(***************************************************************************)

\* What detectMultiScale can do for one raster: raise, or return n faces.
FaceRaises == [raises |-> TRUE, faces |-> 0]
FaceNone == [raises |-> FALSE, faces |-> 0]
FaceOne == [raises |-> FALSE, faces |-> 1]
FaceOutputs == {FaceRaises, FaceNone, FaceOne}

\* detect_faces(image): `len(faces) > 0`.  face_cascade stands for the
\* cascade classifier: the answer of detectMultiScale for each raster.
\* The caller looks at face_cascade[image].raises before using the value.
detect_faces(image, face_cascade) == face_cascade[image].faces > 0

\* Confidences are counted in tenths: the 0.5 that auto_rotate passes.
ConfidenceThreshold == 5

\* A detection set of a result (result.boxes, result.obb): None, or the
\* confidences it carries.
Absent == [present |-> FALSE, conf |-> << >>]
Detections(conf) == [present |-> TRUE, conf |-> conf]
Result(boxes, obb) == [boxes |-> boxes, obb |-> obb]

\* What calling the model can do for one raster: raise, or return results.
YoloRaises == [raises |-> TRUE, results |-> << >>]
YoloReturns(results) == [raises |-> FALSE, results |-> results]

\* Python's max over a non-empty sequence of numbers.
max(confidences) ==
  CHOOSE m \in {confidences[n] : n \in 1..Len(confidences)} :
    \A n \in 1..Len(confidences) : confidences[n] <= m

\* ResultDetects with `>` where lines 60 and 65 have `>=`.
ResultDetectsStrict(result, confidence_threshold) ==
  IF result.boxes.present
    THEN Len(result.boxes.conf) > 0
         /\ max(result.boxes.conf) > confidence_threshold
    ELSE IF result.obb.present
      THEN Len(result.obb.conf) > 0
           /\ max(result.obb.conf) > confidence_threshold
      ELSE FALSE

\* ResultDetects with `if` where line 63 has `elif`: the oriented set is
\* looked at whenever the axis-aligned one did not return True.
ResultDetectsEither(result, confidence_threshold) ==
  \/ /\ result.boxes.present
     /\ Len(result.boxes.conf) > 0
     /\ max(result.boxes.conf) >= confidence_threshold
  \/ /\ result.obb.present
     /\ Len(result.obb.conf) > 0
     /\ max(result.obb.conf) >= confidence_threshold

\* One turn of the `for result in results` loop: TRUE when it returns True.
ResultDetects(result, confidence_threshold) ==
  IF result.boxes.present
    THEN Len(result.boxes.conf) > 0
         /\ max(result.boxes.conf) >= confidence_threshold
    ELSE IF result.obb.present
      THEN Len(result.obb.conf) > 0
           /\ max(result.obb.conf) >= confidence_threshold
      ELSE FALSE

RECURSIVE ScanResults(_, _)
\* The loop of detect_objects_yolo, result by result, with its early return.
ScanResults(results, confidence_threshold) ==
  IF results = << >> THEN FALSE
  ELSE IF ResultDetects(Head(results), confidence_threshold) THEN TRUE
  ELSE ScanResults(Tail(results), confidence_threshold)

\* detect_objects_yolo(image, model, confidence_threshold).  model stands
\* for the YOLO instance: what calling it does for each raster.  The
\* try/except turns a raising call into False.
detect_objects_yolo(image, model, confidence_threshold) ==
  IF model[image].raises THEN FALSE
  ELSE ScanResults(model[image].results, confidence_threshold)

(***************************************************************************)
(* File names and discovery                                                *)
(***************************************************************************)

UpperCase ==
  << "A", "B", "C", "D", "E", "F", "G", "H", "I", "J", "K", "L", "M",
     "N", "O", "P", "Q", "R", "S", "T", "U", "V", "W", "X", "Y", "Z" >>
LowerCase ==
  << "a", "b", "c", "d", "e", "f", "g", "h", "i", "j", "k", "l", "m",
     "n", "o", "p", "q", "r", "s", "t", "u", "v", "w", "x", "y", "z" >>

LowerChar(c) ==
  IF \E n \in 1..Len(UpperCase) : UpperCase[n] = c
    THEN LowerCase[CHOOSE n \in 1..Len(UpperCase) : UpperCase[n] = c]
    ELSE c

\* str.lower() on a name given as a sequence of characters.
lower(f) == [n \in 1..Len(f) |-> LowerChar(f[n])]

\* str.endswith with a tuple of suffixes.
endswith(f, suffixes) ==
  \E suffix \in suffixes :
    /\ Len(suffix) <= Len(f)
    /\ SubSeq(f, Len(f) - Len(suffix) + 1, Len(f)) = suffix

\* The tuple (".png", ".jpg", ".jpeg") of line 145.
Extensions ==
  { << ".", "p", "n", "g" >>, << ".", "j", "p", "g" >>,
    << ".", "j", "p", "e", "g" >> }

\* IsImageName without the lower(): a case-sensitive match.
IsImageNameCaseSensitive(f) == endswith(f, Extensions)

\* `f.lower().endswith((".png", ".jpg", ".jpeg"))`
IsImageName(f) == endswith(lower(f), Extensions)

\* os.path.join(root, f)
join(root, f) == [dir |-> root, name |-> f]

a_jpg == << "a", ".", "j", "p", "g" >>
b_PNG == << "b", ".", "P", "N", "G" >>
c_gif == << "c", ".", "g", "i", "f" >>
readme_txt == << "r", "e", "a", "d", "m", "e", ".", "t", "x", "t" >>
d_JpEg == << "d", ".", "J", "p", "E", "g" >>
e_jpg_bak == << "e", ".", "j", "p", "g", ".", "b", "a", "k" >>
f_jpeg == << "f", ".", "j", "p", "e", "g" >>
xpng == << "x", "p", "n", "g" >>
dot_png == << ".", "p", "n", "g" >>

Dirs == {"root", "sub"}

\* A directory tree as os.scandir lists it for os.walk: whether the root
\* exists, and for each directory its sub-directories and its files, in
\* the order listed.
Tree(exists, rootdirs, rootfiles, subfiles) ==
  [exists |-> exists,
   dirs |-> [d \in Dirs |-> IF d = "root" THEN rootdirs ELSE << >>],
   files |-> [d \in Dirs |-> IF d = "root" THEN rootfiles ELSE subfiles]]

TreeMissing == Tree(FALSE, << >>, << >>, << >>)
TreeEmpty == Tree(TRUE, << >>, << >>, << >>)
TreeFlat == Tree(TRUE, << >>, << a_jpg, b_PNG, c_gif, readme_txt >>, << >>)
TreeNoImages == Tree(TRUE, << "sub" >>, << c_gif, xpng >>, << e_jpg_bak >>)
TreeNested ==
  Tree(TRUE, << "sub" >>, << readme_txt, a_jpg >>, << d_JpEg, e_jpg_bak, f_jpeg >>)
TreeDotted == Tree(TRUE, << "sub" >>, << xpng >>, << dot_png >>)

Trees == {TreeMissing, TreeEmpty, TreeFlat, TreeNoImages, TreeNested, TreeDotted}

RECURSIVE os_walk(_, _)
\* os.walk(top), top-down without following links: the (root, files)
\* pairs in the order yielded; nothing when top cannot be listed.
os_walk(t, top) ==
  LET RECURSIVE Below(_)
      Below(ds) == IF ds = << >> THEN << >>
                   ELSE os_walk(t, Head(ds)) \o Below(Tail(ds))
  IN  IF ~t.exists THEN << >>
      ELSE << [root |-> top, files |-> t.files[top]] >> \o Below(t.dirs[top])

RECURSIVE FilterFiles(_, _)
\* The inner loop of lines 144-146 over one directory's files.
FilterFiles(root, files) ==
  IF files = << >> THEN << >>
  ELSE (IF IsImageName(Head(files)) THEN << join(root, Head(files)) >> ELSE << >>)
       \o FilterFiles(root, Tail(files))

RECURSIVE CollectPaths(_)
\* The outer loop of lines 143-146 over what os.walk yields.
CollectPaths(walked) ==
  IF walked = << >> THEN << >>
  ELSE FilterFiles(Head(walked).root, Head(walked).files)
       \o CollectPaths(Tail(walked))

\* image_paths as process_directory(root_dir) builds it.
FindImages(t, root_dir) == CollectPaths(os_walk(t, root_dir))

Range(seq) == {seq[n] : n \in 1..Len(seq)}

\* The files of a tree: those of the root and of the directories below it.
FilesIn(t) ==
  IF t.exists
    THEN UNION {{join(d, f) : f \in Range(t.files[d])} :
                  d \in {"root"} \cup Range(t.dirs["root"])}
    ELSE {}

(***************************************************************************)
(* Inputs: the files and what the detectors, the model loader and the      *)
(* encoder do for each of them                                             *)
(***************************************************************************)

\* The raster imread returns for an image file, and its rotations.
OrigBGR == cvtColor(OrigRGB)
Rasters ==
  { OrigBGR, cv2_rotate(OrigBGR, ROTATE_90_CLOCKWISE),
    cv2_rotate(OrigBGR, ROTATE_180),
    cv2_rotate(OrigBGR, ROTATE_90_COUNTERCLOCKWISE) }

\* The model's answers auto_rotate is run against: a raising call, a
\* detection below the threshold, a detection at the threshold.
YoloBelow == YoloReturns(<< Result(Detections(<< ConfidenceThreshold - 1 >>), Absent) >>)
YoloAt == YoloReturns(<< Result(Detections(<< ConfidenceThreshold >>), Absent) >>)
YoloOutputs == {YoloRaises, YoloBelow, YoloAt}

\* A detector's answers by how far the raster is turned from the decoded one.
ByTurn(at0, at90, at180, at270) ==
  [r \in Rasters |->
     CASE r = OrigBGR -> at0
       [] r = cv2_rotate(OrigBGR, ROTATE_90_CLOCKWISE) -> at90
       [] r = cv2_rotate(OrigBGR, ROTATE_180) -> at180
       [] OTHER -> at270]

NoFaces == ByTurn(FaceNone, FaceNone, FaceNone, FaceNone)
NoObjects == ByTurn(YoloBelow, YoloBelow, YoloBelow, YoloBelow)

Input(content, face, yolo, modelOk, saveOk) ==
  [content |-> content, face |-> face, yolo |-> yolo,
   modelOk |-> modelOk, saveOk |-> saveOk]

\* A file that is no image.
Undecodable == Input(GarbageFile, NoFaces, NoObjects, TRUE, TRUE)

\* The inputs of one call of auto_rotate: an image file with every
\* combination of answers, or a file that cannot be decoded.
Inputs ==
  [content : {ImageFile(OrigRGB)},
   face : [Rasters -> FaceOutputs],
   yolo : [Rasters -> YoloOutputs],
   modelOk : BOOLEAN,
   saveOk : BOOLEAN]
  \cup {Undecodable}

\* The kinds of file a batch is run over.
BatchInputs ==
  { Undecodable,
    \* a face in the file as it is
    Input(ImageFile(OrigRGB), ByTurn(FaceOne, FaceNone, FaceNone, FaceNone),
          NoObjects, TRUE, TRUE),
    \* a face once turned by 180 degrees, in a file that cannot be written
    Input(ImageFile(OrigRGB), ByTurn(FaceNone, FaceNone, FaceOne, FaceNone),
          NoObjects, TRUE, FALSE),
    \* no face, a failing inference and then an object at 180 degrees
    Input(ImageFile(OrigRGB), NoFaces,
          ByTurn(YoloRaises, YoloBelow, YoloAt, YoloBelow), TRUE, TRUE) }

\* The worker processes of the pool: cpu_count() of them.
NWorkers == 2
Workers == 1..NWorkers
\* The process that runs __main__.
MainProcess == 0

NoPath == [dir |-> "", name |-> << >>]

VARIABLES
  tree,         \* the directory tree under root_dir
  input,        \* per path: what its file holds and what the collaborators do
  verbose,      \* args.verbose
  disk,         \* per path: what the file holds now
  image_paths,  \* process_directory's work list
  pd,           \* where process_directory (and __main__ around it) is
  out,          \* what was printed
  worker,       \* per pool worker: its state and the path it holds
  nextTask,     \* the index in image_paths of the next task a worker gets
  results,      \* results the pool has not yet handed to the parent
  collected,    \* results the parent has consumed (tqdm's count)
  level,        \* per process: the logging level in force
  pc,           \* per path: where auto_rotate is
  runner,       \* per path: the process running auto_rotate on it
  img,          \* per path: auto_rotate's img
  cand,         \* per path: the index of the loop's current candidate
  trace,        \* per path: the detector, loader and save calls made
  logged        \* per path: the logging.debug messages emitted

envVars == << tree, input, verbose >>
poolVars == << image_paths, pd, out, worker, nextTask, results, collected, level >>
itemVars == << disk, pc, runner, img, cand, trace, logged >>
vars == << envVars, poolVars, itemVars >>

\* The files there are.
Paths == DOMAIN disk

(***************************************************************************)
(* auto_rotate(image_path), one step per collaborator call                 *)
(***************************************************************************)

\* A call auto_rotate made: detect_faces, YOLO, detect_objects_yolo or
\* save; for a detector the candidate's angle, the raster handed over and
\* whether it answered True; for save the raster written.
Event(op, angle, image, hit) ==
  [op |-> op, angle |-> angle, image |-> image, hit |-> hit]

Msg(text, angle) == [text |-> text, angle |-> angle]

\* logging.debug(m) in the process running auto_rotate on path p.
Debug(p, m) ==
  IF level[runner[p]] = "DEBUG"
    THEN [logged EXCEPT ![p] = Append(@, m)]
    ELSE logged

Debug2(p, m1, m2) ==
  IF level[runner[p]] = "DEBUG"
    THEN [logged EXCEPT ![p] = Append(Append(@, m1), m2)]
    ELSE logged

Active == {"imread", "faces", "yolo", "objects"}
Finished == {"returned", "raised"}

\* Decode without the check of line 83: the None that imread returned
\* goes on into cv2.cvtColor, which raises.
DecodeRaises(p) ==
  /\ pc[p] = "imread"
  /\ img' = [img EXCEPT ![p] = imread(disk[p])]
  /\ IF imread(disk[p]) = NoImage
       THEN pc' = [pc EXCEPT ![p] = "raised"]
       ELSE pc' = [pc EXCEPT ![p] = "faces"]
  /\ cand' = [cand EXCEPT ![p] = 1]
  /\ UNCHANGED << disk, runner, trace, logged, envVars, poolVars >>

\* Lines 82-85: decode, and return when the file cannot be decoded.
Decode(p) ==
  /\ pc[p] = "imread"
  /\ img' = [img EXCEPT ![p] = imread(disk[p])]
  /\ IF imread(disk[p]) = NoImage
       THEN /\ pc' = [pc EXCEPT ![p] = "returned"]
            /\ logged' = Debug(p, Msg("Could not load image", 0))
       ELSE /\ pc' = [pc EXCEPT ![p] = "faces"]
            /\ logged' = logged
  /\ cand' = [cand EXCEPT ![p] = 1]
  /\ UNCHANGED << disk, runner, trace, envVars, poolVars >>

\* Image.save(image_path) of a raster: the file holds it afterwards, or
\* save raises, leaving the file as it was or cut short.
SaveWrites(p, rotated) ==
  /\ input[p].saveOk
  /\ disk' = [disk EXCEPT ![p] = Encoded(rotated)]

SaveRaises(p) ==
  /\ ~input[p].saveOk
  /\ \E left \in {disk[p], TruncatedFile} : disk' = [disk EXCEPT ![p] = left]

\* FaceTurn with the `return` of line 100 missing: after a detection and
\* the save the loop goes on to the next candidate.
FaceTurnNoReturn(p) ==
  /\ pc[p] = "faces"
  /\ LET c == Candidates[cand[p]]
         rotated == Rotated(img[p], c.rotate_code)
         face_cascade == input[p].face
         hit == ~face_cascade[rotated].raises /\ detect_faces(rotated, face_cascade)
         called == Append(trace[p], Event("detect_faces", c.angle, rotated, hit))
     IN  /\ ~face_cascade[rotated].raises
         /\ IF hit
              THEN /\ trace' = [trace EXCEPT ![p] =
                                  Append(called, Event("save", c.angle, rotated, FALSE))]
                   /\ disk' = [disk EXCEPT ![p] = Encoded(rotated)]
              ELSE /\ trace' = [trace EXCEPT ![p] = called]
                   /\ disk' = disk
         /\ IF cand[p] < Len(Candidates)
              THEN /\ cand' = [cand EXCEPT ![p] = @ + 1]
                   /\ pc' = pc
              ELSE /\ cand' = cand
                   /\ pc' = [pc EXCEPT ![p] = "yolo"]
  /\ UNCHANGED << logged, img, runner, envVars, poolVars >>

\* FaceTurn that treats the upright candidate apart: a face found in the
\* raster as decoded ends auto_rotate without the save of line 98.
FaceTurnSkipsUpright(p) ==
  /\ pc[p] = "faces"
  /\ LET c == Candidates[cand[p]]
         rotated == Rotated(img[p], c.rotate_code)
         face_cascade == input[p].face
         called(hit) == Append(trace[p], Event("detect_faces", c.angle, rotated, hit))
     IN  \/ /\ face_cascade[rotated].raises
            /\ trace' = [trace EXCEPT ![p] = called(FALSE)]
            /\ pc' = [pc EXCEPT ![p] = "raised"]
            /\ UNCHANGED << disk, logged, cand >>
         \/ /\ ~face_cascade[rotated].raises
            /\ detect_faces(rotated, face_cascade)
            /\ c.angle = 0
            /\ trace' = [trace EXCEPT ![p] = called(TRUE)]
            /\ logged' = Debug(p, Msg("Rotated (faces detected)", c.angle))
            /\ pc' = [pc EXCEPT ![p] = "returned"]
            /\ UNCHANGED << disk, cand >>
         \/ /\ ~face_cascade[rotated].raises
            /\ detect_faces(rotated, face_cascade)
            /\ c.angle # 0
            /\ trace' = [trace EXCEPT ![p] =
                           Append(called(TRUE), Event("save", c.angle, rotated, FALSE))]
            /\ \/ /\ SaveWrites(p, rotated)
                  /\ logged' = Debug(p, Msg("Rotated (faces detected)", c.angle))
                  /\ pc' = [pc EXCEPT ![p] = "returned"]
               \/ /\ SaveRaises(p)
                  /\ logged' = logged
                  /\ pc' = [pc EXCEPT ![p] = "raised"]
            /\ UNCHANGED cand
         \/ /\ ~face_cascade[rotated].raises
            /\ ~detect_faces(rotated, face_cascade)
            /\ trace' = [trace EXCEPT ![p] = called(FALSE)]
            /\ IF cand[p] < Len(Candidates)
                 THEN /\ cand' = [cand EXCEPT ![p] = @ + 1]
                      /\ pc' = pc
                 ELSE /\ cand' = cand
                      /\ pc' = [pc EXCEPT ![p] = "yolo"]
            /\ UNCHANGED << disk, logged >>
  /\ UNCHANGED << img, runner, envVars, poolVars >>

\* Lines 87-100: one turn of the face loop.
FaceTurn(p) ==
  /\ pc[p] = "faces"
  /\ LET c == Candidates[cand[p]]
         rotated == Rotated(img[p], c.rotate_code)
         face_cascade == input[p].face
         called(hit) == Append(trace[p], Event("detect_faces", c.angle, rotated, hit))
     IN  \/ /\ face_cascade[rotated].raises
            /\ trace' = [trace EXCEPT ![p] = called(FALSE)]
            /\ pc' = [pc EXCEPT ![p] = "raised"]
            /\ UNCHANGED << disk, logged, cand >>
         \/ /\ ~face_cascade[rotated].raises
            /\ detect_faces(rotated, face_cascade)
            /\ trace' = [trace EXCEPT ![p] =
                           Append(called(TRUE), Event("save", c.angle, rotated, FALSE))]
            /\ \/ /\ SaveWrites(p, rotated)
                  /\ logged' = Debug(p, Msg("Rotated (faces detected)", c.angle))
                  /\ pc' = [pc EXCEPT ![p] = "returned"]
               \/ /\ SaveRaises(p)
                  /\ logged' = logged
                  /\ pc' = [pc EXCEPT ![p] = "raised"]
            /\ UNCHANGED cand
         \/ /\ ~face_cascade[rotated].raises
            /\ ~detect_faces(rotated, face_cascade)
            /\ trace' = [trace EXCEPT ![p] = called(FALSE)]
            /\ IF cand[p] < Len(Candidates)
                 THEN /\ cand' = [cand EXCEPT ![p] = @ + 1]
                      /\ pc' = pc
                 ELSE /\ cand' = cand
                      /\ pc' = [pc EXCEPT ![p] = "yolo"]
            /\ UNCHANGED << disk, logged >>
  /\ UNCHANGED << img, runner, envVars, poolVars >>

\* LoadModel with the construction of line 104 outside the try: a failure
\* leaves auto_rotate as an exception.
LoadModelUncaught(p) ==
  /\ pc[p] = "yolo"
  /\ trace' = [trace EXCEPT ![p] = Append(@, Event("YOLO", 0, NoImage, input[p].modelOk))]
  /\ IF input[p].modelOk
       THEN /\ pc' = [pc EXCEPT ![p] = "objects"]
            /\ cand' = [cand EXCEPT ![p] = 1]
       ELSE /\ pc' = [pc EXCEPT ![p] = "raised"]
            /\ cand' = cand
  /\ UNCHANGED << logged, disk, img, runner, envVars, poolVars >>

\* Lines 103-104 and 120-123: construct the model; a failure is caught,
\* logged, and auto_rotate returns.
LoadModel(p) ==
  /\ pc[p] = "yolo"
  /\ trace' = [trace EXCEPT ![p] = Append(@, Event("YOLO", 0, NoImage, input[p].modelOk))]
  /\ IF input[p].modelOk
       THEN /\ pc' = [pc EXCEPT ![p] = "objects"]
            /\ cand' = [cand EXCEPT ![p] = 1]
            /\ logged' = logged
       ELSE /\ pc' = [pc EXCEPT ![p] = "returned"]
            /\ cand' = cand
            /\ logged' = Debug2(p, Msg("Failed to load YOLO model", 0),
                                   Msg("No faces or objects found", 0))
  /\ UNCHANGED << disk, img, runner, envVars, poolVars >>

\* ObjectTurn with the `return` of line 119 missing: after a detection
\* and the save the loop goes on to the next candidate.
ObjectTurnNoReturn(p) ==
  /\ pc[p] = "objects"
  /\ LET c == Candidates[cand[p]]
         rotated == Rotated(img[p], c.rotate_code)
         model == input[p].yolo
         hit == detect_objects_yolo(rotated, model, ConfidenceThreshold)
         called == Append(trace[p], Event("detect_objects_yolo", c.angle, rotated, hit))
     IN  /\ IF hit
              THEN /\ trace' = [trace EXCEPT ![p] =
                                  Append(called, Event("save", c.angle, rotated, FALSE))]
                   /\ disk' = [disk EXCEPT ![p] = Encoded(rotated)]
              ELSE /\ trace' = [trace EXCEPT ![p] = called]
                   /\ disk' = disk
         /\ IF cand[p] < Len(Candidates)
              THEN /\ cand' = [cand EXCEPT ![p] = @ + 1]
                   /\ pc' = pc
              ELSE /\ cand' = cand
                   /\ pc' = [pc EXCEPT ![p] = "returned"]
  /\ UNCHANGED << logged, img, runner, envVars, poolVars >>

\* ObjectTurn with the save of lines 115-117 outside the `if`: the raster
\* is written whether or not the detector answered True.
ObjectTurnSavesAnyway(p) ==
  /\ pc[p] = "objects"
  /\ LET c == Candidates[cand[p]]
         rotated == Rotated(img[p], c.rotate_code)
         model == input[p].yolo
         hit == detect_objects_yolo(rotated, model, ConfidenceThreshold)
         called == Append(trace[p], Event("detect_objects_yolo", c.angle, rotated, hit))
     IN  /\ trace' = [trace EXCEPT ![p] =
                        Append(called, Event("save", c.angle, rotated, FALSE))]
         /\ disk' = [disk EXCEPT ![p] = Encoded(rotated)]
         /\ pc' = [pc EXCEPT ![p] = "returned"]
  /\ UNCHANGED << cand, logged, img, runner, envVars, poolVars >>

\* ObjectTurn with detect_objects_yolo lacking its try/except: a raising
\* inference call is caught by the except of line 120, which ends the loop.
ObjectTurnInferenceUncaught(p) ==
  /\ pc[p] = "objects"
  /\ LET c == Candidates[cand[p]]
         rotated == Rotated(img[p], c.rotate_code)
         model == input[p].yolo
         hit == detect_objects_yolo(rotated, model, ConfidenceThreshold)
         called == Append(trace[p], Event("detect_objects_yolo", c.angle, rotated, hit))
     IN  \/ /\ model[rotated].raises
            /\ trace' = [trace EXCEPT ![p] = called]
            /\ logged' = Debug2(p, Msg("Failed to load YOLO model", 0),
                                   Msg("No faces or objects found", 0))
            /\ pc' = [pc EXCEPT ![p] = "returned"]
            /\ UNCHANGED << cand, disk >>
         \/ /\ hit
            /\ trace' = [trace EXCEPT ![p] =
                           Append(called, Event("save", c.angle, rotated, FALSE))]
            /\ \/ /\ SaveWrites(p, rotated)
                  /\ logged' = Debug(p, Msg("Rotated (objects detected)", c.angle))
               \/ /\ SaveRaises(p)
                  /\ logged' = Debug2(p, Msg("Failed to load YOLO model", 0),
                                         Msg("No faces or objects found", 0))
            /\ pc' = [pc EXCEPT ![p] = "returned"]
            /\ UNCHANGED cand
         \/ /\ ~model[rotated].raises
            /\ ~hit
            /\ trace' = [trace EXCEPT ![p] = called]
            /\ IF cand[p] < Len(Candidates)
                 THEN /\ cand' = [cand EXCEPT ![p] = @ + 1]
                      /\ pc' = pc
                      /\ logged' = logged
                 ELSE /\ cand' = cand
                      /\ pc' = [pc EXCEPT ![p] = "returned"]
                      /\ logged' = Debug(p, Msg("No faces or objects found", 0))
            /\ UNCHANGED disk
  /\ UNCHANGED << img, runner, envVars, poolVars >>

\* ObjectTurn with `img = cv2.rotate(img, rotate_code)` where line 111
\* assigns to rotated: each candidate is turned from the one before it.
ObjectTurnCumulative(p) ==
  /\ pc[p] = "objects"
  /\ LET c == Candidates[cand[p]]
         rotated == Rotated(img[p], c.rotate_code)
         model == input[p].yolo
         hit == detect_objects_yolo(rotated, model, ConfidenceThreshold)
         called == Append(trace[p], Event("detect_objects_yolo", c.angle, rotated, hit))
     IN  /\ img' = [img EXCEPT ![p] = rotated]
         /\ \/ /\ hit
               /\ trace' = [trace EXCEPT ![p] =
                              Append(called, Event("save", c.angle, rotated, FALSE))]
               /\ \/ /\ SaveWrites(p, rotated)
                     /\ logged' = Debug(p, Msg("Rotated (objects detected)", c.angle))
                  \/ /\ SaveRaises(p)
                     /\ logged' = Debug2(p, Msg("Failed to load YOLO model", 0),
                                            Msg("No faces or objects found", 0))
               /\ pc' = [pc EXCEPT ![p] = "returned"]
               /\ UNCHANGED cand
            \/ /\ ~hit
               /\ trace' = [trace EXCEPT ![p] = called]
               /\ IF cand[p] < Len(Candidates)
                    THEN /\ cand' = [cand EXCEPT ![p] = @ + 1]
                         /\ pc' = pc
                         /\ logged' = logged
                    ELSE /\ cand' = cand
                         /\ pc' = [pc EXCEPT ![p] = "returned"]
                         /\ logged' = Debug(p, Msg("No faces or objects found", 0))
               /\ UNCHANGED disk
  /\ UNCHANGED << runner, envVars, poolVars >>

\* ObjectTurn with the save of lines 115-117 outside the try: an
\* exception of save leaves auto_rotate.
ObjectTurnSaveUncaught(p) ==
  /\ pc[p] = "objects"
  /\ LET c == Candidates[cand[p]]
         rotated == Rotated(img[p], c.rotate_code)
         model == input[p].yolo
         hit == detect_objects_yolo(rotated, model, ConfidenceThreshold)
         called == Append(trace[p], Event("detect_objects_yolo", c.angle, rotated, hit))
     IN  \/ /\ hit
            /\ trace' = [trace EXCEPT ![p] =
                           Append(called, Event("save", c.angle, rotated, FALSE))]
            /\ \/ /\ SaveWrites(p, rotated)
                  /\ logged' = Debug(p, Msg("Rotated (objects detected)", c.angle))
                  /\ pc' = [pc EXCEPT ![p] = "returned"]
               \/ /\ SaveRaises(p)
                  /\ logged' = logged
                  /\ pc' = [pc EXCEPT ![p] = "raised"]
            /\ UNCHANGED cand
         \/ /\ ~hit
            /\ trace' = [trace EXCEPT ![p] = called]
            /\ IF cand[p] < Len(Candidates)
                 THEN /\ cand' = [cand EXCEPT ![p] = @ + 1]
                      /\ pc' = pc
                      /\ logged' = logged
                 ELSE /\ cand' = cand
                      /\ pc' = [pc EXCEPT ![p] = "returned"]
                      /\ logged' = Debug(p, Msg("No faces or objects found", 0))
            /\ UNCHANGED disk
  /\ UNCHANGED << img, runner, envVars, poolVars >>

\* Lines 105-123: one turn of the object loop; an exception of save is
\* caught by the except of line 120.
ObjectTurn(p) ==
  /\ pc[p] = "objects"
  /\ LET c == Candidates[cand[p]]
         rotated == Rotated(img[p], c.rotate_code)
         model == input[p].yolo
         hit == detect_objects_yolo(rotated, model, ConfidenceThreshold)
         called == Append(trace[p], Event("detect_objects_yolo", c.angle, rotated, hit))
     IN  \/ /\ hit
            /\ trace' = [trace EXCEPT ![p] =
                           Append(called, Event("save", c.angle, rotated, FALSE))]
            /\ \/ /\ SaveWrites(p, rotated)
                  /\ logged' = Debug(p, Msg("Rotated (objects detected)", c.angle))
               \/ /\ SaveRaises(p)
                  /\ logged' = Debug2(p, Msg("Failed to load YOLO model", 0),
                                         Msg("No faces or objects found", 0))
            /\ pc' = [pc EXCEPT ![p] = "returned"]
            /\ UNCHANGED cand
         \/ /\ ~hit
            /\ trace' = [trace EXCEPT ![p] = called]
            /\ IF cand[p] < Len(Candidates)
                 THEN /\ cand' = [cand EXCEPT ![p] = @ + 1]
                      /\ pc' = pc
                      /\ logged' = logged
                 ELSE /\ cand' = cand
                      /\ pc' = [pc EXCEPT ![p] = "returned"]
                      /\ logged' = Debug(p, Msg("No faces or objects found", 0))
            /\ UNCHANGED disk
  /\ UNCHANGED << img, runner, envVars, poolVars >>

(***************************************************************************)
(* auto_rotate called on one file, as the tests call it                    *)
(***************************************************************************)

\* A directory holding the one image, as the tests' setup makes it.
TreeSingle == Tree(TRUE, << >>, << a_jpg >>, << >>)
TestPath == join("root", a_jpg)

InitRotate ==
  /\ tree = TreeSingle
  /\ verbose = FALSE
  /\ \E i \in Inputs : input = [p \in FilesIn(TreeSingle) |-> i]
  /\ disk = [p \in FilesIn(TreeSingle) |-> input[p].content]
  /\ image_paths = << >>
  /\ pd = "none"
  /\ out = << >>
  /\ worker = [w \in Workers |-> [state |-> "none", task |-> NoPath]]
  /\ nextTask = 1
  /\ results = << >>
  /\ collected = 0
  /\ level = [q \in {MainProcess} \cup Workers |-> "WARNING"]
  /\ pc = [p \in FilesIn(TreeSingle) |-> "imread"]
  /\ runner = [p \in FilesIn(TreeSingle) |-> MainProcess]
  /\ img = [p \in FilesIn(TreeSingle) |-> NoImage]
  /\ cand = [p \in FilesIn(TreeSingle) |-> 1]
  /\ trace = [p \in FilesIn(TreeSingle) |-> << >>]
  /\ logged = [p \in FilesIn(TreeSingle) |-> << >>]

NextRotate ==
  \/ \E p \in Paths : Decode(p)
  \/ \E p \in Paths : FaceTurn(p)
  \/ \E p \in Paths : LoadModel(p)
  \/ \E p \in Paths : ObjectTurn(p)

SpecRotate == InitRotate /\ [][NextRotate]_vars

(***************************************************************************)
(* detect_objects_yolo against the results a model can return              *)
(***************************************************************************)

\* The most results one call of the model returns.
MaxResults == 2

\* The arrays `conf.cpu().numpy()` gives: empty, below the threshold, at
\* it, at it with a lower one after it, above it.
ConfidenceArrays ==
  { << >>, << ConfidenceThreshold - 1 >>, << ConfidenceThreshold >>,
    << ConfidenceThreshold, ConfidenceThreshold - 1 >>,
    << ConfidenceThreshold + 1 >> }

\* What result.boxes and result.obb can be.
DetectionSets == {Absent} \cup {Detections(conf) : conf \in ConfidenceArrays}

ResultValues == {Result(boxes, obb) : boxes \in DetectionSets, obb \in DetectionSets}

RECURSIVE ResultLists(_)
\* The lists of at most n results.
ResultLists(n) ==
  IF n = 0 THEN {<< >>}
  ELSE ResultLists(n - 1) \cup
       {Append(given, result) :
          given \in {l \in ResultLists(n - 1) : Len(l) = n - 1},
          result \in ResultValues}

\* What calling the model can do: raise, or return a list of results.
ModelOutputs == {YoloRaises} \cup {YoloReturns(given) : given \in ResultLists(MaxResults)}

\* auto_rotate on an image without a face, so that the object loop calls
\* detect_objects_yolo with a model whose answer for the decoded raster
\* is any of ModelOutputs.
InitDetect ==
  /\ tree = TreeSingle
  /\ verbose = FALSE
  /\ \E given \in ModelOutputs :
       input = [p \in FilesIn(TreeSingle) |->
                  Input(ImageFile(OrigRGB), NoFaces,
                        ByTurn(given, YoloBelow, YoloBelow, YoloBelow), TRUE, TRUE)]
  /\ disk = [p \in FilesIn(TreeSingle) |-> input[p].content]
  /\ image_paths = << >>
  /\ pd = "none"
  /\ out = << >>
  /\ worker = [w \in Workers |-> [state |-> "none", task |-> NoPath]]
  /\ nextTask = 1
  /\ results = << >>
  /\ collected = 0
  /\ level = [q \in {MainProcess} \cup Workers |-> "WARNING"]
  /\ pc = [p \in FilesIn(TreeSingle) |-> "imread"]
  /\ runner = [p \in FilesIn(TreeSingle) |-> MainProcess]
  /\ img = [p \in FilesIn(TreeSingle) |-> NoImage]
  /\ cand = [p \in FilesIn(TreeSingle) |-> 1]
  /\ trace = [p \in FilesIn(TreeSingle) |-> << >>]
  /\ logged = [p \in FilesIn(TreeSingle) |-> << >>]

SpecDetect == InitDetect /\ [][NextRotate]_vars

(***************************************************************************)
(* process_directory(root_dir) under __main__, and the pool                *)
(***************************************************************************)

Idle == [state |-> "idle", task |-> NoPath]
Dead == [state |-> "dead", task |-> NoPath]
Busy(p) == [state |-> "busy", task |-> p]

\* The level logging.basicConfig sets in __main__ (line 205).
MainLevel(v) == IF v THEN "DEBUG" ELSE "WARNING"

\* init_worker: logging.basicConfig(level=logging.DEBUG, ..., force=True).
init_worker(lv, w) == [lv EXCEPT ![w] = "DEBUG"]

RECURSIVE InitWorkers(_, _)
\* Each process of the pool runs the initializer once.
InitWorkers(lv, ws) ==
  IF ws = {} THEN lv
  ELSE LET w == CHOOSE x \in ws : TRUE
       IN  InitWorkers(init_worker(lv, w), ws \ {w})

\* Discover without the early return of lines 148-150: the pool is made
\* whether or not an image was found.
DiscoverAlwaysPools ==
  /\ pd = "called"
  /\ image_paths' = FindImages(tree, "root")
  /\ out' = out \o << "Found images", "Detection strategy" >>
  /\ pd' = "pool"
  /\ worker' = [w \in Workers |-> Idle]
  /\ level' = InitWorkers(level, Workers)
  /\ UNCHANGED << nextTask, results, collected, envVars, itemVars >>

\* Lines 141-156: discovery, the early return when nothing was found, and
\* otherwise the pool, whose workers start idle with imap_unordered's
\* tasks queued in the order of image_paths.
Discover ==
  /\ pd = "called"
  /\ image_paths' = FindImages(tree, "root")
  /\ IF FindImages(tree, "root") = << >>
       THEN /\ out' = Append(out, "No images found")
            /\ pd' = "returned"
            /\ UNCHANGED << worker, level >>
       ELSE /\ out' = out \o << "Found images", "Detection strategy" >>
            /\ pd' = "pool"
            /\ worker' = [w \in Workers |-> Idle]
            /\ level' = InitWorkers(level, Workers)
  /\ UNCHANGED << nextTask, results, collected, envVars, itemVars >>

\* TakeTask for a pool that hands out a task without taking it off the
\* queue.
TakeTaskNoAdvance(w) ==
  /\ pd = "pool"
  /\ worker[w].state = "idle"
  /\ nextTask <= Len(image_paths)
  /\ worker' = [worker EXCEPT ![w] = Busy(image_paths[nextTask])]
  /\ pc' = [pc EXCEPT ![image_paths[nextTask]] = "imread"]
  /\ runner' = [runner EXCEPT ![image_paths[nextTask]] = w]
  /\ UNCHANGED << image_paths, pd, out, nextTask, results, collected, level,
                  disk, img, cand, trace, logged, envVars >>

\* A pool worker takes the next task and calls process_single_image,
\* which calls auto_rotate (lines 126-128).
TakeTask(w) ==
  /\ pd = "pool"
  /\ worker[w].state = "idle"
  /\ nextTask <= Len(image_paths)
  /\ worker' = [worker EXCEPT ![w] = Busy(image_paths[nextTask])]
  /\ nextTask' = nextTask + 1
  /\ pc' = [pc EXCEPT ![image_paths[nextTask]] = "imread"]
  /\ runner' = [runner EXCEPT ![image_paths[nextTask]] = w]
  /\ UNCHANGED << image_paths, pd, out, results, collected, level,
                  disk, img, cand, trace, logged, envVars >>

\* process_single_image is over: the worker hands the pool the result,
\* the return value or the exception, and is idle again.
Report(w) ==
  /\ worker[w].state = "busy"
  /\ pc[worker[w].task] \in Finished
  /\ results' = Append(results, [path |-> worker[w].task,
                                 ok |-> pc[worker[w].task] = "returned"])
  /\ worker' = [worker EXCEPT ![w] = Idle]
  /\ UNCHANGED << image_paths, pd, out, nextTask, collected, level,
                  envVars, itemVars >>

\* Pool.__exit__ calls terminate(): the worker processes are stopped, the
\* calls of auto_rotate they were in are cut off, queued tasks are dropped.
Terminated(state) == IF state \in Active THEN "killed" ELSE state

Terminate ==
  /\ worker' = [w \in Workers |-> Dead]
  /\ pc' = [p \in Paths |-> Terminated(pc[p])]

\* list(tqdm(...)) takes the next result of imap_unordered: tqdm counts a
\* value; an exception is raised again in the parent, leaves the with
\* block and process_directory, and __main__ prints it (lines 212-213).
Collect ==
  /\ pd = "pool"
  /\ results # << >>
  /\ results' = Tail(results)
  /\ IF Head(results).ok
       THEN /\ collected' = collected + 1
            /\ UNCHANGED << pd, out, worker, pc >>
       ELSE /\ Terminate
            /\ pd' = "raised"
            /\ out' = Append(out, "Error")
            /\ collected' = collected
  /\ UNCHANGED << image_paths, nextTask, level, envVars,
                  disk, runner, img, cand, trace, logged >>

\* Exhausted after the first result: next() where the code has list().
ExhaustedAfterOne == collected >= 1

\* The iterator is exhausted once len(image_paths) results were taken.
Exhausted == collected = Len(image_paths)

\* Lines 163-165: list() is done, the with block is left, the completion
\* notice is printed and process_directory returns.
Complete ==
  /\ pd = "pool"
  /\ Exhausted
  /\ Terminate
  /\ pd' = "returned"
  /\ out' = Append(out, "Processing complete!")
  /\ UNCHANGED << image_paths, nextTask, results, collected, level, envVars,
                  disk, runner, img, cand, trace, logged >>

\* Interrupt caught inside the with block: the notice is printed once and
\* the pool goes on.
InterruptIgnored ==
  /\ pd = "pool"
  /\ "Processing interrupted by user" \notin Range(out)
  /\ out' = Append(out, "Processing interrupted by user")
  /\ UNCHANGED << image_paths, pd, worker, nextTask, results, collected, level,
                  envVars, itemVars >>

\* Ctrl-C while the parent is in the with block: KeyboardInterrupt leaves
\* the block, so the pool is terminated, and __main__ prints the notice
\* (lines 210-211).
Interrupt ==
  /\ pd = "pool"
  /\ Terminate
  /\ pd' = "interrupted"
  /\ out' = Append(out, "Processing interrupted by user")
  /\ UNCHANGED << image_paths, nextTask, results, collected, level, envVars,
                  disk, runner, img, cand, trace, logged >>

\* The image files of a tree.
ImagesOf(t) == Range(FindImages(t, "root"))

Init ==
  /\ tree \in Trees
  /\ verbose \in BOOLEAN
  /\ \E given \in [ImagesOf(tree) -> BatchInputs] :
       input = [p \in FilesIn(tree) |->
                  IF p \in ImagesOf(tree) THEN given[p] ELSE Undecodable]
  /\ disk = [p \in FilesIn(tree) |-> input[p].content]
  /\ image_paths = << >>
  /\ pd = "called"
  /\ out = << >>
  /\ worker = [w \in Workers |-> [state |-> "none", task |-> NoPath]]
  /\ nextTask = 1
  /\ results = << >>
  /\ collected = 0
  /\ level = [q \in {MainProcess} \cup Workers |-> MainLevel(verbose)]
  /\ pc = [p \in FilesIn(tree) |-> "idle"]
  /\ runner = [p \in FilesIn(tree) |-> MainProcess]
  /\ img = [p \in FilesIn(tree) |-> NoImage]
  /\ cand = [p \in FilesIn(tree) |-> 1]
  /\ trace = [p \in FilesIn(tree) |-> << >>]
  /\ logged = [p \in FilesIn(tree) |-> << >>]

Next ==
  \/ Discover
  \/ \E w \in Workers : TakeTask(w)
  \/ \E p \in Paths : Decode(p)
  \/ \E p \in Paths : FaceTurn(p)
  \/ \E p \in Paths : LoadModel(p)
  \/ \E p \in Paths : ObjectTurn(p)
  \/ \E w \in Workers : Report(w)
  \/ Collect
  \/ Complete
  \/ Interrupt

Spec == Init /\ [][Next]_vars

(***************************************************************************)
(* Properties of auto_rotate                                               *)
(***************************************************************************)

\* A raster turned clockwise by a quarter turn, and by an angle.
QuarterTurn(image) ==
  [i \in 1..Width(image) |->
     [j \in 1..Height(image) |-> image[Height(image) - j + 1][i]]]

TurnedBy(image, angle) ==
  CASE angle = 0 -> image
    [] angle = 90 -> QuarterTurn(image)
    [] angle = 180 -> QuarterTurn(QuarterTurn(image))
    [] angle = 270 -> QuarterTurn(QuarterTurn(QuarterTurn(image)))

\* The face signal's answer for the file of p turned by an angle.
FaceAnswer(p, angle) == input[p].face[TurnedBy(OrigBGR, angle)]
FaceFires(p, angle) == ~FaceAnswer(p, angle).raises /\ FaceAnswer(p, angle).faces > 0
FaceQuiet(p, angle) == FaceAnswer(p, angle) = FaceNone

\* The object signal's answer for the file of p turned by an angle.
ObjectFires(p, angle) ==
  detect_objects_yolo(TurnedBy(OrigBGR, angle), input[p].yolo, ConfidenceThreshold)

Decodable(p) == input[p].content.kind = "image"

\* The first angle, in the fixed order, at which the face signal fires.
FirstFaceAngle(p) ==
  CHOOSE a \in Angles :
    FaceFires(p, a) /\ \A b \in Angles : FaceFires(p, b) => a <= b

Calls(p, ops) == SelectSeq(trace[p], LAMBDA e : e.op \in ops)
Saves(p) == Calls(p, {"save"})
Detectors == {"detect_faces", "detect_objects_yolo"}

\* C1: for a decodable image whose face signal raises nowhere and fires
\* for some candidate, and whose file can be written, the file holds, once
\* auto_rotate is over, the raster turned by the first angle of
\* 0, 90, 180, 270 at which the face signal fires.
C1_FirstFaceMatchPersisted ==
  \A p \in Paths :
    ( /\ pc[p] \in Finished
      /\ Decodable(p)
      /\ input[p].saveOk
      /\ \A a \in Angles : ~FaceAnswer(p, a).raises
      /\ \E a \in Angles : FaceFires(p, a) )
    => disk[p] = Encoded(TurnedBy(OrigBGR, FirstFaceAngle(p)))

\* C2: once a detector call of auto_rotate answered True, auto_rotate
\* makes no further detector call and does not construct the model: a
\* True answer is followed by nothing but the save.
C2_NothingEvaluatedAfterDetection ==
  \A p \in Paths :
    \A n \in 1..Len(trace[p]) :
      (trace[p][n].op \in Detectors /\ trace[p][n].hit)
      => \A m \in (n + 1)..Len(trace[p]) : trace[p][m].op = "save"

\* C2's case: the face signal fires at 0 and at 180, and auto_rotate is
\* over after the detection at 0.
C2_Witness ==
  /\ pc[TestPath] = "returned"
  /\ FaceFires(TestPath, 0) /\ FaceFires(TestPath, 180)
  /\ ObjectFires(TestPath, 0)
  /\ Len(trace[TestPath]) = 2
  /\ trace[TestPath][1].hit

\* The four face evaluations, all without a detection, in the fixed order.
FourFacesQuiet(p) ==
  /\ Len(trace[p]) >= 4
  /\ \A n \in 1..4 :
       /\ trace[p][n].op = "detect_faces"
       /\ trace[p][n].angle = Candidates[n].angle
       /\ ~trace[p][n].hit

ObjectPhaseCalls(p) == Calls(p, {"YOLO", "detect_objects_yolo"})

\* C3: face evidence pre-empts object evidence.  The model is constructed
\* and the object signal queried only after the four face evaluations of
\* 0, 90, 180, 270 answered no detection; when the face signal (raising
\* nowhere) fires for some candidate, neither the model nor the object
\* signal is used; and when the face signal first matches at 270 and the
\* object signal matches at 0, the file holds the raster turned by 270.
C3_FacePreemptsObjects ==
  \A p \in Paths :
    /\ ObjectPhaseCalls(p) # << >> => FourFacesQuiet(p)
    /\ ( /\ \A a \in Angles : ~FaceAnswer(p, a).raises
         /\ \E a \in Angles : FaceFires(p, a) )
       => ObjectPhaseCalls(p) = << >>
    /\ ( /\ pc[p] \in Finished
         /\ Decodable(p)
         /\ input[p].saveOk
         /\ FaceQuiet(p, 0) /\ FaceQuiet(p, 90) /\ FaceQuiet(p, 180)
         /\ FaceFires(p, 270)
         /\ ObjectFires(p, 0) )
       => /\ disk[p] = Encoded(TurnedBy(OrigBGR, 270))
          /\ ObjectPhaseCalls(p) = << >>

\* Neither signal fires for any of the four candidates.
NoSignalFires(p) ==
  \A a \in Angles : FaceQuiet(p, a) /\ ~ObjectFires(p, a)

\* C4: when neither signal fires for any candidate, auto_rotate never
\* calls save, does not raise, and the file holds what it held.
C4_NoDetectionNoWrite ==
  \A p \in Paths :
    NoSignalFires(p)
    => /\ Saves(p) = << >>
       /\ disk[p] = input[p].content
       /\ pc[p] # "raised"

\* C4's case: a decodable image, the model loaded, all eight evaluations
\* made without a detection, and auto_rotate has returned.
C4_Witness ==
  /\ pc[TestPath] = "returned"
  /\ Decodable(TestPath)
  /\ NoSignalFires(TestPath)
  /\ Len(Calls(TestPath, Detectors)) = 8

\* C5: auto_rotate calls save at most once, whatever the eight answers.
C5_AtMostOneWrite ==
  \A p \in Paths : Len(Saves(p)) <= 1

\* C5's case: eight evaluations were made, the last one a detection, and
\* the file was written.
C5_Witness ==
  /\ pc[TestPath] = "returned"
  /\ Len(Calls(TestPath, Detectors)) = 8
  /\ Len(Saves(TestPath)) = 1
  /\ disk[TestPath] # input[TestPath].content

(***************************************************************************)
(* Properties of process_directory                                         *)
(***************************************************************************)

Discovered == Range(image_paths)
Attempted == {p \in Discovered : pc[p] \in Finished}
Interrupted == "Processing interrupted by user" \in Range(out)

\* C6: unless the user interrupts, a failure of one item stays with that
\* item: process_directory does not raise, and no other item's processing
\* is cut off or left out.
C6_ItemFailureContained ==
  ~Interrupted =>
    /\ pd # "raised"
    /\ \A p \in Paths : pc[p] # "killed"
    /\ pd \notin {"called", "pool"} => Attempted = Discovered

\* C7: when process_directory has returned, every discovered item was
\* attempted, and the parent has counted as many results as there are
\* discovered items.
C7_ReturnsAfterAllAttempted ==
  pd = "returned" =>
    /\ Attempted = Discovered
    /\ collected = Len(image_paths)

\* C7's case: three items were discovered, one of them undecodable, and
\* process_directory has returned.
C7_Witness ==
  /\ pd = "returned"
  /\ Len(image_paths) = 3
  /\ \E p \in Discovered : ~Decodable(p)
  /\ \E p \in Discovered : Saves(p) # << >>

\* C8: from the interrupt on, the run is over (the notice is printed and
\* control is back in __main__), no item that had not started starts, and
\* the backlog stays as it was.
C8_NoNewWorkAfterInterrupt ==
  [][ /\ Interrupted' => pd' = "interrupted"
      /\ Interrupted =>
           /\ \A p \in Paths : pc[p] = "idle" => pc'[p] = "idle"
           /\ nextTask' = nextTask ]_vars

\* C8's case: the interrupt came while a discovered item had not started.
C8_Witness ==
  /\ Interrupted
  /\ pd = "interrupted"
  /\ \E p \in Discovered : pc[p] = "idle"
  /\ \E p \in Discovered : pc[p] = "returned"

\* C9: an item a worker has started is never cut off by the interrupt: it
\* runs to its return or to its own exception.
C9_NoPartialItemCancellation ==
  Interrupted => \A p \in Paths : pc[p] # "killed"

\* Two characters equal up to the case of a letter.
SameLetter(c, d) ==
  \/ c = d
  \/ \E n \in 1..Len(UpperCase) : {c, d} = {UpperCase[n], LowerCase[n]}

\* The name ends, case-insensitively, with .png, .jpg or .jpeg.
HasImageExtension(f) ==
  \E e \in { << ".", "p", "n", "g" >>, << ".", "j", "p", "g" >>,
             << ".", "j", "p", "e", "g" >> } :
    /\ Len(e) <= Len(f)
    /\ \A n \in 1..Len(e) : SameLetter(f[Len(f) - Len(e) + n], e[n])

\* C10: once discovery is done, the work items are exactly the files of
\* the tree whose name ends, case-insensitively, with .png, .jpg or .jpeg;
\* from a.jpg, b.PNG, c.gif, readme.txt they are a.jpg and b.PNG.
C10_DiscoverySelectsImageNames ==
  pd # "called" =>
    /\ Discovered = {p \in FilesIn(tree) : HasImageExtension(p.name)}
    /\ tree = TreeFlat => Discovered = {join("root", a_jpg), join("root", b_PNG)}

\* C10's case: discovery over a nested tree found the three images, one
\* of them with a mixed-case extension in a sub-directory.
C10_Witness ==
  /\ pd = "pool"
  /\ tree = TreeNested
  /\ Discovered = {join("root", a_jpg), join("sub", d_JpEg), join("sub", f_jpeg)}

\* C11: when discovery found nothing, process_directory has printed the
\* `No images found` notice and nothing else, has returned without
\* raising, no pool worker exists, and no item was handed out or started.
C11_NothingFoundNoPool ==
  (pd # "called" /\ image_paths = << >>) =>
    /\ pd = "returned"
    /\ out = << "No images found" >>
    /\ \A w \in Workers : worker[w].state = "none"
    /\ nextTask = 1
    /\ results = << >>
    /\ \A p \in Paths : pc[p] = "idle" /\ trace[p] = << >> /\ disk[p] = input[p].content

\* C11's case: process_directory has run on a root that does not exist.
C11_Witness ==
  /\ tree = TreeMissing
  /\ pd = "returned"
  /\ out = << "No images found" >>

(***************************************************************************)
(* Properties of detect_objects_yolo                                       *)
(***************************************************************************)

\* The calls of detect_objects_yolo made for p, and what the model did in
\* each of them.
ObjectCalls(p) == Calls(p, {"detect_objects_yolo"})
ModelAnswer(p, e) == input[p].yolo[e.image]

\* The confidences of the detection set a result is judged by: those of
\* the axis-aligned set when the result carries one, else of the oriented.
Consulted(result) ==
  IF result.boxes.present THEN result.boxes.conf ELSE result.obb.conf

Confs(result) == Range(Consulted(result))

\* C12: a call of detect_objects_yolo in which the model returned answers
\* True when the greatest confidence of some result's consulted set is
\* equal to the threshold, and False when every confidence of every
\* consulted set is strictly below the threshold.
C12_ThresholdInclusive ==
  \A p \in Paths :
    \A n \in 1..Len(ObjectCalls(p)) :
      LET e == ObjectCalls(p)[n]
          rs == Range(ModelAnswer(p, e).results)
      IN  ~ModelAnswer(p, e).raises =>
            /\ (\E r \in rs :
                  /\ ConfidenceThreshold \in Confs(r)
                  /\ \A c \in Confs(r) : c <= ConfidenceThreshold)
               => e.hit
            /\ (\A r \in rs : \A c \in Confs(r) : c < ConfidenceThreshold)
               => ~e.hit

\* C12's case: the model returned one result whose axis-aligned set has
\* its greatest confidence at the threshold, and the call answered True.
C12_Witness ==
  /\ pc[TestPath] = "returned"
  /\ ObjectCalls(TestPath) # << >>
  /\ LET e == ObjectCalls(TestPath)[1]
     IN  /\ ModelAnswer(TestPath, e) =
              YoloReturns(<< Result(Detections(<< ConfidenceThreshold,
                                                  ConfidenceThreshold - 1 >>), Absent) >>)
         /\ e.hit

\* C17: a call of detect_objects_yolo answers True exactly when some
\* result's consulted set (the axis-aligned one when present, the oriented
\* one only when the axis-aligned is absent) holds a confidence at or above
\* the threshold; a raising call answers False.
C17_AxisAlignedPreferred ==
  \A p \in Paths :
    \A n \in 1..Len(ObjectCalls(p)) :
      LET e == ObjectCalls(p)[n]
          rs == Range(ModelAnswer(p, e).results)
      IN  e.hit <=> /\ ~ModelAnswer(p, e).raises
                    /\ \E r \in rs : \E c \in Confs(r) : c >= ConfidenceThreshold

\* C17's case: the one result carries an axis-aligned set below the
\* threshold and an oriented set above it, and the call answered False.
C17_Witness ==
  /\ pc[TestPath] = "returned"
  /\ ObjectCalls(TestPath) # << >>
  /\ LET e == ObjectCalls(TestPath)[1]
     IN  /\ ModelAnswer(TestPath, e) =
              YoloReturns(<< Result(Detections(<< ConfidenceThreshold - 1 >>),
                                    Detections(<< ConfidenceThreshold + 1 >>)) >>)
         /\ ~e.hit

(***************************************************************************)
(* Failures inside auto_rotate                                             *)
(***************************************************************************)

\* C13: a file that cannot be decoded is never handed to a detector and
\* never written, and its call of auto_rotate does not raise; and in a
\* batch in which no item raised and no interrupt came, the run does not
\* raise, no item is cut off, and once process_directory has returned
\* every discovered item was attempted.
C13_DecodeFailureSkipsItem ==
  /\ \A p \in Paths :
       (~Decodable(p) /\ pc[p] # "idle") =>
         /\ pc[p] \in {"imread", "returned", "killed"}
         /\ trace[p] = << >>
         /\ disk[p] = input[p].content
  /\ (~Interrupted /\ \A p \in Paths : pc[p] # "raised") =>
       /\ pd # "raised"
       /\ \A p \in Paths : pc[p] # "killed"
       /\ pd = "returned" => Attempted = Discovered

\* C13's case: the batch has returned; one of its items could not be
\* decoded, and a sibling was written turned by 180 degrees.
C13_Witness ==
  /\ pd = "returned"
  /\ \E p \in Discovered : ~Decodable(p) /\ pc[p] = "returned"
  /\ \E q \in Discovered : disk[q] = Encoded(TurnedBy(OrigBGR, 180))

\* C14: a call of detect_objects_yolo in which the model raised answered
\* False, auto_rotate has not raised, and the object loop went on: before
\* the last candidate the next call, if made, is for the next candidate
\* in the fixed order, and otherwise the loop stands at that candidate;
\* after the last candidate auto_rotate has returned without a write.
C14_InferenceFailureIsNoDetection ==
  \A p \in Paths :
    \A n \in 1..Len(ObjectCalls(p)) :
      LET e == ObjectCalls(p)[n]
      IN  ModelAnswer(p, e).raises =>
            /\ ~e.hit
            /\ pc[p] # "raised"
            /\ e.angle = Candidates[n].angle
            /\ IF n < Len(Candidates)
                 THEN \/ /\ Len(ObjectCalls(p)) > n
                         /\ ObjectCalls(p)[n + 1].angle = Candidates[n + 1].angle
                      \/ /\ Len(ObjectCalls(p)) = n
                         /\ pc[p] = "objects"
                         /\ cand[p] = n + 1
                 ELSE /\ pc[p] = "returned"
                      /\ Saves(p) = << >>
                      /\ disk[p] = input[p].content

\* C14's case: the model raised for the raster as decoded, an object was
\* then found in the raster turned by 180 degrees, and that was written.
C14_Witness ==
  /\ pc[TestPath] = "returned"
  /\ input[TestPath].yolo[OrigBGR].raises
  /\ Len(ObjectCalls(TestPath)) = 3
  /\ disk[TestPath] = Encoded(TurnedBy(OrigBGR, 180))

ModelLoads(p) == Calls(p, {"YOLO"})
FaceDecided(p) ==
  \E n \in 1..Len(trace[p]) : trace[p][n].op = "detect_faces" /\ trace[p][n].hit

\* C15: when the construction of the model failed, auto_rotate has
\* returned, without a detection call on the model and without a write,
\* the file holding what it held; and when the face loop made a decision,
\* the model was never constructed.
C15_ModelFailureNotFatal ==
  \A p \in Paths :
    /\ (ModelLoads(p) # << >> /\ ~input[p].modelOk) =>
         /\ pc[p] = "returned"
         /\ ObjectCalls(p) = << >>
         /\ Saves(p) = << >>
         /\ disk[p] = input[p].content
    /\ FaceDecided(p) => ModelLoads(p) = << >>

\* C15's case: four face evaluations without a detection, then the
\* construction of the model failed, and auto_rotate has returned.
C15_Witness ==
  /\ pc[TestPath] = "returned"
  /\ ~input[TestPath].modelOk
  /\ Len(trace[TestPath]) = 5
  /\ trace[TestPath][5].op = "YOLO"

(***************************************************************************)
(* Properties of the pool                                                  *)
(***************************************************************************)

\* C16: the work list names no path twice; no two workers hold the same
\* path at a time; an item being processed is held by the one worker
\* running it; the items handed out are the first of the work list, one
\* hand-out each; and no item goes through the cascade more than once.
C16_EachItemOneWorker ==
  /\ \A i, j \in 1..Len(image_paths) : image_paths[i] = image_paths[j] => i = j
  /\ \A v, w \in Workers :
       ( /\ worker[v].state = "busy"
         /\ worker[w].state = "busy"
         /\ worker[v].task = worker[w].task ) => v = w
  /\ \A p \in Paths : pc[p] \in Active => worker[runner[p]] = Busy(p)
  /\ {p \in Paths : pc[p] # "idle"} = {image_paths[i] : i \in 1..(nextTask - 1)}
  /\ \A p \in Paths :
       /\ Len(Calls(p, {"detect_faces"})) <= Len(Candidates)
       /\ Len(ObjectCalls(p)) <= Len(Candidates)

\* C16's case: two workers are each in the middle of an item.
C16_Witness ==
  \E v, w \in Workers :
    /\ v # w
    /\ worker[v].state = "busy" /\ pc[worker[v].task] = "faces"
    /\ worker[w].state = "busy" /\ pc[worker[w].task] = "objects"
    /\ Len(image_paths) = 3

(***************************************************************************)
(* The upright candidate, the diagnostics, and what is written             *)
(***************************************************************************)

\* A signal fires for the file of p as it is: the face signal, or, with
\* the face signal quiet at every angle and the model loaded, the object
\* signal.
FiresUpright(p) ==
  \/ FaceFires(p, 0)
  \/ /\ \A a \in Angles : FaceQuiet(p, a)
     /\ input[p].modelOk
     /\ ObjectFires(p, 0)

\* C18: when a signal fires for the image as it is, auto_rotate, once
\* over, has called save exactly once, for angle 0 and with the raster as
\* decoded, and (the file being writable) the file holds that raster,
\* which is what it held.
C18_UprightStillWritten ==
  \A p \in Paths :
    (pc[p] \in Finished /\ Decodable(p) /\ FiresUpright(p)) =>
      /\ Len(Saves(p)) = 1
      /\ Saves(p)[1].angle = 0
      /\ Saves(p)[1].image = OrigBGR
      /\ input[p].saveOk =>
           /\ disk[p] = Encoded(OrigBGR)
           /\ disk[p] = input[p].content

\* C18's case: a face was found in the image as it is, and the file was
\* written again.
C18_Witness ==
  /\ pc[TestPath] = "returned"
  /\ FaceFires(TestPath, 0)
  /\ input[TestPath].saveOk
  /\ Len(Saves(TestPath)) = 1
  /\ disk[TestPath] = Encoded(OrigBGR)

\* The per-file decision messages: rotated to an angle, or left as it is.
DecisionTexts ==
  {"Rotated (faces detected)", "Rotated (objects detected)", "No faces or objects found"}

\* C19: a per-file decision message is emitted only in a run that was
\* given the verbosity flag.
C19_DiagnosticsOptIn ==
  \A p \in Paths :
    (\E n \in 1..Len(logged[p]) : logged[p][n].text \in DecisionTexts) => verbose

FailedSaves(p) ==
  {n \in 1..Len(trace[p]) : trace[p][n].op = "save" /\ ~input[p].saveOk}

\* C21: an exception of the object phase is caught inside auto_rotate and
\* ends the phase at once.  When the construction of the model failed,
\* auto_rotate has returned and no candidate was evaluated on the model;
\* when the save after an object detection raised, auto_rotate has
\* returned and nothing was called after that save.  When the save after
\* a face detection raised, auto_rotate has raised, and neither the model
\* nor any further candidate was used.
C21_ObjectPhaseExceptionsCaught ==
  \A p \in Paths :
    /\ (ModelLoads(p) # << >> /\ ~input[p].modelOk) =>
         /\ pc[p] = "returned"
         /\ ObjectCalls(p) = << >>
         /\ trace[p][Len(trace[p])].op = "YOLO"
    /\ \A n \in FailedSaves(p) :
         /\ n = Len(trace[p])
         /\ trace[p][n - 1].op = "detect_objects_yolo" => pc[p] = "returned"
         /\ trace[p][n - 1].op = "detect_faces" =>
              /\ pc[p] = "raised"
              /\ ModelLoads(p) = << >>

\* C21's case: an object was found in the raster as decoded, the save
\* raised, and auto_rotate has returned with the other three candidates
\* not evaluated.
C21_Witness ==
  /\ pc[TestPath] = "returned"
  /\ FailedSaves(TestPath) # {}
  /\ Len(ObjectCalls(TestPath)) = 1
  /\ ObjectCalls(TestPath)[1].hit

\* C21's other case: a face was found in the raster turned by 180
\* degrees, the save raised, and auto_rotate has raised.
C21_WitnessFacePhase ==
  /\ pc[TestPath] = "raised"
  /\ FailedSaves(TestPath) # {}
  /\ Len(Calls(TestPath, {"detect_faces"})) = 3
  /\ ModelLoads(TestPath) = << >>

====
